---- MODULE Spec2Model ----
(***************************************************************************)
(* Model of anymail/webhooks/mailgun.py: the Mailgun webhook signature     *)
(* validator, the tracking event mapper and the inbound event mapper.      *)
(*                                                                         *)
(* Conventions                                                             *)
(*  - A Django QueryDict (request.POST) is a record of multi-valued        *)
(*    fields: each field is the sequence of its values, <<>> when the key  *)
(*    is absent.  d[k] and d.get(k) read the last value.                   *)
(*  - In the validator a string is a sequence of code points (so that a    *)
(*    single bit of a character can be flipped and .encode('ascii') can    *)
(*    fail); in the mappers a string is a sequence of one-character        *)
(*    strings.                                                             *)
(*  - A JSON text is a tagged record: [t |-> "bad"] is a text json.loads   *)
(*    rejects, any other tag is the value json.loads returns.              *)
(*  - Python None is <<>> where a value is optional ("unset").             *)
(***************************************************************************)
EXTENDS Integers, Sequences, FiniteSets, TLC

VARIABLES api_key,    \* MailgunBaseWebhookView.api_key (bytes, fixed per view)
          vreq,       \* the request being validated
          vpc,        \* position inside validate_request
          vexpected,  \* local expected_signature (<<>> before it is computed)
          vreached,   \* steps of validate_request executed so far
          voutcome,   \* how validate_request ended
          tevent,     \* tracking: the raw esp_event (request.POST)
          tresult,    \* tracking: the AnymailTrackingEvent or the exception
          ireq,       \* inbound: the raw request (POST and FILES)
          iresult     \* inbound: the AnymailInboundEvent or the exception

vars == <<api_key, vreq, vpc, vexpected, vreached, voutcome,
          tevent, tresult, ireq, iresult>>

\* ------------------------------------------------------------------------
\* Generic helpers
\* ------------------------------------------------------------------------

\* All sequences over S of length 0..n
RECURSIVE SeqsUpTo(_, _)
SeqsUpTo(S, n) ==
  IF n = 0 THEN { <<>> }
  ELSE LET shorter == SeqsUpTo(S, n - 1)
       IN  shorter \cup { Append(s, x) : s \in shorter, x \in S }

Last(s) == s[Len(s)]

\* QueryDict: `key in d`
Has(field) == field # <<>>

\* ------------------------------------------------------------------------
\* Signature validator  (MailgunBaseWebhookView.validate_request)
\* ------------------------------------------------------------------------

\* One byte of digest state absorbed per input byte
RECURSIVE Absorb(_, _)
Absorb(bytes, h) ==
  IF bytes = <<>> THEN h
  ELSE Absorb(Tail(bytes), (h * 31 + Head(bytes) + 7) % 256)

HexChar(n) == IF n < 10 THEN 48 + n ELSE 87 + n

\* hmac.new(key, msg, sha256).hexdigest(): a keyed digest with HMAC's
\* inner/outer structure, narrowed to one byte, rendered in lower-case hex
hmac_hexdigest(key, msg) ==
  LET inner == Absorb(msg, Absorb(key, 54))
      outer == Absorb(<<inner>>, Absorb(key, 92))
  IN  << HexChar(outer \div 16), HexChar(outer % 16) >>

\* str.encode('ascii') succeeds
IsAscii(s) == \A i \in 1..Len(s) : s[i] < 128

\* '{}{}'.format(timestamp, token)
FormatMsg(timestamp, token) == timestamp \o token

\* django.utils.crypto.constant_time_compare: equality of the two strings
constant_time_compare(a, b) == a = b

\* --- the inputs of the validator ---------------------------------------

MaxFieldLen == 2

ApiKeys == { <<107>>, <<107, 50>> }

\* timestamp and token values: digits, and for the token one non-ASCII
\* character (233)
Timestamps == SeqsUpTo({49, 50}, MaxFieldLen) \ { <<>> }
Tokens     == SeqsUpTo({50, 233}, MaxFieldLen) \ { <<>> }

\* character c with bit b flipped
FlipBit(c, b) == IF (c \div (2 ^ b)) % 2 = 1 THEN c - 2 ^ b ELSE c + 2 ^ b

SingleBitFlips(s) ==
  { [s EXCEPT ![i] = FlipBit(s[i], b)] : i \in 1..Len(s), b \in 0..7 }

\* the signatures a caller may supply for (key, timestamp, token): the
\* digest of the message, every single-bit flip of it, and a few others
Signatures(key, timestamp, token) ==
  LET d == hmac_hexdigest(key, FormatMsg(timestamp, token))
  IN  {d} \cup SingleBitFlips(d) \cup { <<>>, <<48>>, d \o <<48>>, <<d[1]>> }

Optional(S) == { <<>> } \cup { <<v>> : v \in S }

\* the signatures tried against a request with these timestamp and token
\* fields (those of the empty message when one of them is absent)
SignaturesFor(key, ts, tok) ==
  IF Has(ts) /\ Has(tok) THEN Signatures(key, Last(ts), Last(tok))
  ELSE Signatures(key, <<>>, <<>>)

ValidateRequests(key) ==
  UNION { { [basic_auth_ok |-> ok,
             POST |-> [token |-> tok, timestamp |-> ts, signature |-> sig]] :
              ok \in BOOLEAN, sig \in Optional(SignaturesFor(key, ts, tok)) } :
          tok \in Optional(Tokens), ts \in Optional(Timestamps) }

NoValidateRequest ==
  [basic_auth_ok |-> TRUE,
   POST |-> [token |-> <<>>, timestamp |-> <<>>, signature |-> <<>>]]

\* --- the steps of validate_request --------------------------------------

\* AnymailBaseWebhookView.validate_request: the basic-auth check
basic_auth_passes(request) == request.basic_auth_ok

\* a presence check that forgets the signature field
RequiredFieldsPresent_NoSignature(POST) ==
  Has(POST.token) /\ Has(POST.timestamp)

\* the try block: token, timestamp and signature are all in request.POST
RequiredFieldsPresent(POST) ==
  Has(POST.token) /\ Has(POST.timestamp) /\ Has(POST.signature)

\* expected_signature for the request
ExpectedSignature(key, POST) ==
  hmac_hexdigest(key, FormatMsg(Last(POST.timestamp), Last(POST.token)))

\* the message '{}{}'.format(timestamp, token) can be encoded as ASCII
MessageEncodes(POST) ==
  IsAscii(FormatMsg(Last(POST.timestamp), Last(POST.token)))

\* a comparison that stops after the first character
SignatureMatches_FirstChar(signature, expected_signature) ==
  /\ Len(signature) = Len(expected_signature)
  /\ signature # <<>> => signature[1] = expected_signature[1]

\* line 39: constant_time_compare(signature, expected_signature)
SignatureMatches(signature, expected_signature) ==
  constant_time_compare(signature, expected_signature)

\* ------------------------------------------------------------------------
\* Text helpers of the mappers (a string is a sequence of characters)
\* ------------------------------------------------------------------------

DigitChars == <<"0", "1", "2", "3", "4", "5", "6", "7", "8", "9">>
Digits == { DigitChars[i] : i \in 1..Len(DigitChars) }
DigitVal(c) == (CHOOSE i \in 1..Len(DigitChars) : DigitChars[i] = c) - 1

AllDigits(s) == \A i \in 1..Len(s) : s[i] \in Digits

RECURSIVE DigitsValue(_)
DigitsValue(s) ==
  IF s = <<>> THEN 0
  ELSE DigitsValue(SubSeq(s, 1, Len(s) - 1)) * 10 + DigitVal(Last(s))

\* str.strip(): int() and float() ignore surrounding whitespace
RECURSIVE LStrip(_)
LStrip(s) == IF s # <<>> /\ Head(s) = " " THEN LStrip(Tail(s)) ELSE s
RECURSIVE RStrip(_)
RStrip(s) ==
  IF s # <<>> /\ Last(s) = " " THEN RStrip(SubSeq(s, 1, Len(s) - 1)) ELSE s
Strip(s) == RStrip(LStrip(s))

HasSign(s) == s # <<>> /\ Head(s) \in {"+", "-"}
Unsigned(s) == IF HasSign(s) THEN Tail(s) ELSE s

\* int(s) returns a value (otherwise it raises ValueError)
ParsesAsInt(s) ==
  LET body == Unsigned(Strip(s)) IN body # <<>> /\ AllDigits(body)

\* the value of int(s), for s with ParsesAsInt(s)
IntValue(s) ==
  LET t == Strip(s)
      v == DigitsValue(Unsigned(t))
  IN  IF HasSign(t) /\ Head(t) = "-" THEN 0 - v ELSE v

\* s.split('.')[0]: the text before the first dot
RECURSIVE FirstSegment(_)
FirstSegment(s) ==
  IF s = <<>> \/ Head(s) = "." THEN <<>>
  ELSE <<Head(s)>> \o FirstSegment(Tail(s))

\* s.startswith('<')
StartsWithBracket(s) == s # <<>> /\ Head(s) = "<"

\* ------------------------------------------------------------------------
\* Tracking event mapper  (MailgunTrackingWebhookView)
\* ------------------------------------------------------------------------

\* event_types.get(name, EventType.UNKNOWN)
event_types(name) ==
  CASE name = "delivered"    -> "DELIVERED"
    [] name = "dropped"      -> "REJECTED"
    [] name = "bounced"      -> "BOUNCED"
    [] name = "complained"   -> "COMPLAINED"
    [] name = "unsubscribed" -> "UNSUBSCRIBED"
    [] name = "opened"       -> "OPENED"
    [] name = "clicked"      -> "CLICKED"
    [] OTHER                 -> "UNKNOWN"

\* the keys of the reject_reasons table
RejectReasonCodes == {499, 605, 607}

\* the reject_reasons table
reject_reasons(mta_status) ==
  CASE mta_status = 499 -> "TIMED_OUT"
    [] mta_status = 605 -> "BOUNCED"
    [] mta_status = 607 -> "SPAM"

\* a range rule whose lower end is exclusive
DefaultRejectReason_OpenLower(mta_status) ==
  IF 400 < mta_status /\ mta_status < 600 THEN "BOUNCED" ELSE "OTHER"

\* lines 105-106: the default for a status the table does not list
DefaultRejectReason(mta_status) ==
  IF 400 <= mta_status /\ mta_status < 600 THEN "BOUNCED" ELSE "OTHER"

\* lines 88-106: reject_reason from the `code` field; "None" is unset
RejectReason(code) ==
  IF ~Has(code) THEN "None"                        \* KeyError: pass
  ELSE LET text == Last(code) IN
    IF ParsesAsInt(text)
      THEN LET mta_status == IntValue(text) IN
           IF mta_status \in RejectReasonCodes
             THEN reject_reasons(mta_status)
             ELSE DefaultRejectReason(mta_status)
      ELSE \* ValueError: split never fails on a string, so the inner
           \* except clause is not taken and the else branch runs
           LET status_class == FirstSegment(text) IN
           IF status_class \in { <<"4">>, <<"5">> } THEN "BOUNCED" ELSE "OTHER"

\* a normalisation that wraps whether or not the bracket is there
NormalizeMessageId_AlwaysWrap(message_id) ==
  IF message_id # <<>> /\ Last(message_id) # <<>>
    THEN << <<"<">> \o Last(message_id) \o <<">">> >>
    ELSE message_id

\* lines 83-84: wrap a non-empty id that does not start with '<'
NormalizeMessageId(message_id) ==
  IF message_id # <<>> /\ Last(message_id) # <<>>
       /\ ~StartsWithBracket(Last(message_id))
    THEN << <<"<">> \o Last(message_id) \o <<">">> >>
    ELSE message_id

\* line 82: esp_event.get('Message-Id', esp_event.get('message-id', None));
\* <<>> is None, <<id>> a value
RawMessageId(esp_event) ==
  IF Has(esp_event.Message_Id) THEN << Last(esp_event.Message_Id) >>
  ELSE IF Has(esp_event.message_id) THEN << Last(esp_event.message_id) >>
  ELSE <<>>

\* --- JSON texts and values ------------------------------------------------

EmptyDict == [k \in {} |-> 0]

\* the text of a JSON object, and a text that is not JSON
JObject(d) == [t |-> "object", dict |-> d]
JBad == [t |-> "bad", dict |-> EmptyDict]

\* header values: a JSON string (holding the text j), or a JSON number
VString(j) == [t |-> "string", json |-> j]
VNumber == [t |-> "number", json |-> JBad]

\* elements of a header list: a [field, value] pair, a list of another
\* length, or a number
Pair(f, v) == [t |-> "pair", field |-> f, value |-> v]
Triple == [t |-> "triple", field |-> "", value |-> VNumber]
NumberItem == [t |-> "number", field |-> "", value |-> VNumber]

\* the text of `message-headers`: a JSON list, a JSON number, or not JSON
HList(items) == [t |-> "list", items |-> items]
HNumber == [t |-> "number", items |-> <<>>]
HBad == [t |-> "bad", items |-> <<>>]

\* json.loads(text) raises ValueError
JsonInvalid(text) == text.t = "bad"

\* shallow merge of two dicts, b's keys overriding a's (dict.update)
Update(a, b) ==
  [k \in DOMAIN a \cup DOMAIN b |-> IF k \in DOMAIN b THEN b[k] ELSE a[k]]

\* anymail.utils.combine(*dicts): shallow merge, left to right
RECURSIVE combine(_)
combine(dicts) ==
  IF dicts = <<>> THEN EmptyDict
  ELSE Update(combine(SubSeq(dicts, 1, Len(dicts) - 1)), Last(dicts))

\* a header-name test that ignores case
IsVariablesHeader_AnyCase(field) ==
  field \in {"X-Mailgun-Variables", "x-mailgun-variables"}

\* line 117: field == 'X-Mailgun-Variables'
IsVariablesHeader(field) == field = "X-Mailgun-Variables"

\* `for [field, value] in headers`: the exception of the first element
\* that does not unpack into two, "" when all do
RECURSIVE UnpackError(_)
UnpackError(items) ==
  IF items = <<>> THEN ""
  ELSE IF Head(items).t = "triple" THEN "ValueError"
  ELSE IF Head(items).t = "number" THEN "TypeError"
  ELSE UnpackError(Tail(items))

\* lines 116-117: the values of the X-Mailgun-Variables entries, in order
RECURSIVE Variables(_)
Variables(items) ==
  IF items = <<>> THEN <<>>
  ELSE IF IsVariablesHeader(Head(items).field)
    THEN <<Head(items).value>> \o Variables(Tail(items))
    ELSE Variables(Tail(items))

\* json.loads(value) over the variables: the first exception, "" if none
RECURSIVE LoadsError(_)
LoadsError(values) ==
  IF values = <<>> THEN ""
  ELSE IF Head(values).t # "string" THEN "TypeError"
  ELSE IF JsonInvalid(Head(values).json) THEN "ValueError"
  ELSE LoadsError(Tail(values))

\* lines 111-122: [exc, metadata] from the `message-headers` field;
\* only KeyError is caught
TrackingMetadata(message_headers) ==
  IF ~Has(message_headers)
    THEN [exc |-> "", metadata |-> EmptyDict]             \* KeyError
  ELSE LET headers == Last(message_headers) IN
    IF JsonInvalid(headers)
      THEN [exc |-> "ValueError", metadata |-> EmptyDict]
    ELSE IF headers.t # "list"
      THEN [exc |-> "TypeError", metadata |-> EmptyDict]
    ELSE IF UnpackError(headers.items) # ""
      THEN [exc |-> UnpackError(headers.items), metadata |-> EmptyDict]
    ELSE LET variables == Variables(headers.items) IN
      IF Len(variables) >= 1
        THEN IF LoadsError(variables) # ""
          THEN [exc |-> LoadsError(variables), metadata |-> EmptyDict]
          ELSE [exc |-> "",
                metadata |-> combine([i \in 1..Len(variables) |->
                                        variables[i].json.dict])]
        ELSE [exc |-> "", metadata |-> EmptyDict]

\* --- esp_to_anymail_event -------------------------------------------------

TrackingFailure(exc, field) ==
  [status |-> "error", exc |-> exc, field |-> field,
   event_type |-> "", timestamp |-> 0, message_id |-> <<>>,
   reject_reason |-> "None", metadata |-> EmptyDict]

\* lines 74-141: the AnymailTrackingEvent, or the exception that
\* propagates (with the field whose access or parse raised it)
TrackingEvent(esp_event) ==
  IF ~Has(esp_event.event) THEN TrackingFailure("KeyError", "event")
  ELSE IF ~Has(esp_event.timestamp)
    THEN TrackingFailure("KeyError", "timestamp")
  ELSE IF ~ParsesAsInt(Last(esp_event.timestamp))
    THEN TrackingFailure("ValueError", "timestamp")
  ELSE LET md == TrackingMetadata(esp_event.message_headers) IN
    IF md.exc # "" THEN TrackingFailure(md.exc, "message-headers")
    ELSE [status |-> "ok", exc |-> "", field |-> "",
          event_type |-> event_types(Last(esp_event.event)),
          timestamp |-> IntValue(Last(esp_event.timestamp)),
          message_id |-> NormalizeMessageId(RawMessageId(esp_event)),
          reject_reason |-> RejectReason(esp_event.code),
          metadata |-> md.metadata]

\* --- the inputs of the tracking mapper ------------------------------------

MaxCodeLen == 2
MaxHeaders == 2
MaxIdLen == 3

\* `code` values: the codes the documentation names, range ends, signed
\* and padded integers, extended status codes, malformed texts, and every
\* short text over a small alphabet
CodeSamples ==
  { <<"4", "9", "9">>, <<"6", "0", "5">>, <<"6", "0", "7">>,
    <<"4", "5", "0">>, <<"2", "5", "0">>, <<"3", "9", "9">>,
    <<"4", "0", "0">>, <<"5", "9", "9">>, <<"6", "0", "0">>,
    <<"-", "4", "5", "0">>, <<"+", "4", "5", "0">>, <<" ", "4", "5", "0", " ">>,
    <<"5", ".", "1", ".", "1">>, <<"4", ".", "2", ".", "2">>,
    <<"2", ".", "1", ".", "5">>, <<"a", "b", "c">>, <<"4", "x">>,
    <<"4", "5", "0", "a">>, <<"4", " ", "5">> }

CodeTexts == CodeSamples \cup SeqsUpTo({"4", "5", "2", ".", "a", "-"}, MaxCodeLen)

\* the `code` field: absent, one value, or two values (the last is read)
AllCodes == Optional(CodeTexts) \cup { << <<"a", "b", "c">>, <<"4", "5", "0">> >> }
FewCodes == { <<>>, << <<"4", "5", "0">> >> }

\* elements of a posted header list
HeaderItems ==
  { Pair("X-Mailgun-Variables", VString(JObject(d))) :
      d \in { EmptyDict, [a |-> 1], [b |-> 2], [a |-> 1, b |-> 2], [b |-> 3] } }
  \cup { Pair("X-Mailgun-Variables", VString(JBad)),
         Pair("X-Mailgun-Variables", VNumber),
         Pair("x-mailgun-variables", VString(JObject([a |-> 9]))),
         Pair("Subject", VString(JBad)),
         Triple, NumberItem }

AllHeaders ==
  Optional({ HBad, HNumber }
           \cup { HList(items) : items \in SeqsUpTo(HeaderItems, MaxHeaders) })
FewHeaders ==
  { <<>>, << HBad >>,
    << HList(<< Pair("X-Mailgun-Variables", VString(JObject([a |-> 1]))) >>) >> }

IdTexts == SeqsUpTo({"<", ">", "a"}, MaxIdLen)
FewIds == { <<>>, << <<"b">> >>, << <<"<", "b", ">">> >> }

\* `timestamp` is present (validate_request ran first); it may not be a
\* number
AllTimestamps == { << <<"1", "7">> >>, << <<" ", "5">> >>, << <<"x">> >>,
                   << <<>> >>, << <<"1", ".", "5">> >> }
FewTimestamps == { << <<"1", "7">> >>, << <<"x">> >> }

AllEventNames ==
  Optional({"delivered", "dropped", "bounced", "complained", "unsubscribed",
            "opened", "clicked", "stored"})

EspEvent(ev, ts, mid1, mid2, code, hdrs) ==
  [present |-> TRUE, event |-> ev, timestamp |-> ts,
   Message_Id |-> mid1, message_id |-> mid2,
   code |-> code, message_headers |-> hdrs]

\* the raw events mapped: each family varies some fields over all their
\* values and the others over a few
TrackingEvents ==
  { EspEvent(<<"bounced">>, ts, <<>>, << <<"a">> >>, code, hdrs) :
      ts \in FewTimestamps, code \in AllCodes, hdrs \in FewHeaders }
  \cup
  { EspEvent(<<"delivered">>, ts, <<>>, << <<"a">> >>, code, hdrs) :
      ts \in FewTimestamps, code \in FewCodes, hdrs \in AllHeaders }
  \cup
  { EspEvent(<<"delivered">>, << <<"1", "7">> >>, mid1, mid2, <<>>, <<>>) :
      mid1 \in Optional(IdTexts), mid2 \in FewIds }
  \cup
  { EspEvent(<<"delivered">>, << <<"1", "7">> >>, <<>>, mid2, <<>>, <<>>) :
      mid2 \in Optional(IdTexts) }
  \cup
  { EspEvent(ev, ts, <<>>, <<>>, code, <<>>) :
      ev \in AllEventNames, ts \in AllTimestamps, code \in FewCodes }

\* ------------------------------------------------------------------------
\* Inbound event mapper  (MailgunInboundWebhookView)
\* ------------------------------------------------------------------------

\* str.lower() over the letters that occur in the modelled texts
LowerChar(c) ==
  CASE c = "Y" -> "y" [] c = "E" -> "e" [] c = "S" -> "s"
    [] c = "N" -> "n" [] c = "O" -> "o" [] OTHER -> c

Lower(s) == [i \in 1..Len(s) |-> LowerChar(s[i])]

\* header names compare without regard to case (email.message.Message)
LowerName(name) ==
  CASE name = "X-Mailgun-Sflag" -> "x-mailgun-sflag"
    [] name = "X-Mailgun-Sscore" -> "x-mailgun-sscore"
    [] name = "Subject" -> "subject"
    [] OTHER -> name

\* message.get(name): <<>> when the message has no such header, else
\* <<value>> of the first header of that name
RECURSIVE HeaderGet(_, _)
HeaderGet(headers, name) ==
  IF headers = <<>> THEN <<>>
  ELSE IF LowerName(Head(headers).name) = LowerName(name)
    THEN << Head(headers).value >>
    ELSE HeaderGet(Tail(headers), name)

\* the text before and after the first dot
IntegerPart(s) == FirstSegment(s)
FractionPart(s) ==
  IF Len(FirstSegment(s)) = Len(s) THEN <<>>
  ELSE SubSeq(s, Len(FirstSegment(s)) + 2, Len(s))

\* float(s) returns a value: optional sign, digits with at most one dot
\* and at least one digit, surrounding blanks ignored (exponents, inf
\* and nan need letters outside the modelled texts)
ParsesAsFloat(s) ==
  LET body == Unsigned(Strip(s)) IN
  /\ AllDigits(IntegerPart(body))
  /\ AllDigits(FractionPart(body))
  /\ IntegerPart(body) \o FractionPart(body) # <<>>

RECURSIVE DropTrailingZeros(_)
DropTrailingZeros(s) ==
  IF s # <<>> /\ Last(s) = "0"
    THEN DropTrailingZeros(SubSeq(s, 1, Len(s) - 1)) ELSE s

\* the value of float(s) as n / 10^e, without trailing zeros
FloatValue(s) ==
  LET t == Strip(s)
      body == Unsigned(t)
      frac == DropTrailingZeros(FractionPart(body))
      n == DigitsValue(IntegerPart(body) \o frac)
  IN  [n |-> IF HasSign(t) /\ Head(t) = "-" THEN 0 - n ELSE n,
       e |-> Len(frac)]

\* line 168: message.get('X-Mailgun-Sflag', 'No').lower() == 'yes'
SpamDetected(headers) ==
  LET flag == HeaderGet(headers, "X-Mailgun-Sflag") IN
  Lower(IF flag = <<>> THEN <<"N", "o">> ELSE flag[1]) = <<"y", "e", "s">>

\* a score parse that lets ValueError propagate
SpamScore_ValueErrorEscapes(headers) ==
  LET score == HeaderGet(headers, "X-Mailgun-Sscore") IN
  IF score = <<>> THEN [exc |-> "", score |-> <<>>]
  ELSE IF ~ParsesAsFloat(score[1]) THEN [exc |-> "ValueError", score |-> <<>>]
  ELSE [exc |-> "", score |-> << FloatValue(score[1]) >>]

\* lines 169-172: float(message['X-Mailgun-Sscore']); TypeError (header
\* missing, None) and ValueError (not a number) leave the score unset
SpamScore(headers) ==
  LET score == HeaderGet(headers, "X-Mailgun-Sscore") IN
  IF score = <<>> THEN [exc |-> "", score |-> <<>>]               \* TypeError
  ELSE IF ~ParsesAsFloat(score[1]) THEN [exc |-> "", score |-> <<>>]  \* ValueError
  ELSE [exc |-> "", score |-> << FloatValue(score[1]) >>]

\* 'attachment-%d' % i
AttachmentField(i) == <<"attachment", i>>

\* attachment field names counted from zero
att_ids_ZeroBased(attachment_count) ==
  [i \in 1..attachment_count |-> AttachmentField(i - 1)]

\* line 191: ['attachment-%d' % i for i in range(1, attachment_count+1)]
att_ids(attachment_count) ==
  [i \in 1..attachment_count |-> AttachmentField(i)]

\* the text of `content-id-map`: a JSON object, as its (content-id,
\* field name) items in order, a JSON number, or not JSON
MObject(items) == [t |-> "object", items |-> items]
MNumber == [t |-> "number", items |-> <<>>]
MBad == [t |-> "bad", items |-> <<>>]

\* request.POST.get('content-id-map', '{}')
ContentIdMapText(content_id_map) ==
  IF Has(content_id_map) THEN Last(content_id_map) ELSE MObject(<<>>)

\* lines 192-195, att_cids.get(att_id, None): the content-id of the last
\* item that names the field, <<>> (None) when no item does
RECURSIVE att_cids_get(_, _)
att_cids_get(items, att_id) ==
  IF items = <<>> THEN <<>>
  ELSE IF Last(items).att_id = att_id THEN << Last(items).cid >>
  ELSE att_cids_get(SubSeq(items, 1, Len(items) - 1), att_id)

\* lines 196-200: the uploaded files read from request.FILES, in order,
\* up to the first field that request.FILES does not hold (KeyError)
RECURSIVE FilesRead(_, _)
FilesRead(ids, FILES) ==
  IF ids = <<>> \/ Head(ids) \notin FILES THEN <<>>
  ELSE << Head(ids) >> \o FilesRead(Tail(ids), FILES)

\* construct_attachment_from_uploaded_file(request.FILES[att_id],
\*                                         content_id=...)
construct_attachment(att_id, content_id) ==
  [file |-> att_id, content_id |-> content_id]

ParsedFailure(exc, field, consumed) ==
  [exc |-> exc, field |-> field, consumed |-> consumed,
   attachments |-> <<>>, attachments_none |-> TRUE, headers |-> <<>>]

\* the last step of message_from_mailgun_parsed, lines 202-207:
\* json.loads(request.POST['message-headers']) and construct(...)
ConstructParsed(POST, consumed, attachments, attachments_none) ==
  IF ~Has(POST.message_headers)
    THEN ParsedFailure("KeyError", "message-headers", consumed)
  ELSE IF Last(POST.message_headers).t = "bad"
    THEN ParsedFailure("ValueError", "message-headers", consumed)
  ELSE [exc |-> "", field |-> "", consumed |-> consumed,
        attachments |-> attachments, attachments_none |-> attachments_none,
        headers |-> Last(POST.message_headers).items]

\* lines 182-207: the message built from the fully-parsed fields, or the
\* exception that propagates; `consumed` lists the request.FILES fields
\* read on the way
message_from_mailgun_parsed(request) ==
  LET POST == request.POST IN
  IF ~Has(POST.attachment_count)
    THEN ConstructParsed(POST, <<>>, <<>>, TRUE)          \* KeyError
  ELSE IF ~ParsesAsInt(Last(POST.attachment_count))
    THEN ParsedFailure("ValueError", "attachment-count", <<>>)
  ELSE LET ids == att_ids(IntValue(Last(POST.attachment_count)))
           map == ContentIdMapText(POST.content_id_map)
           read == FilesRead(ids, request.FILES)
       IN
    IF map.t = "bad"
      THEN ParsedFailure("ValueError", "content-id-map", <<>>)
    ELSE IF map.t # "object"
      THEN ParsedFailure("AttributeError", "content-id-map", <<>>)
    ELSE IF Len(read) < Len(ids)
      THEN ParsedFailure("KeyError", "FILES", read)
    ELSE ConstructParsed(POST, read,
           [i \in 1..Len(ids) |->
              construct_attachment(ids[i], att_cids_get(map.items, ids[i]))],
           FALSE)

\* AnymailInboundMessage.parse_raw_mime(request.POST['body-mime'])
parse_raw_mime(body_mime) ==
  [exc |-> "", field |-> "", consumed |-> <<>>,
   attachments |-> body_mime.attachments, attachments_none |-> FALSE,
   headers |-> body_mime.headers]

InboundFailure(exc, field, consumed) ==
  [status |-> "error", exc |-> exc, field |-> field, consumed |-> consumed,
   attachments |-> <<>>, attachments_none |-> TRUE, headers |-> <<>>,
   spam_detected |-> FALSE, spam_score |-> <<>>, timestamp |-> 0]

\* lines 152-180: the AnymailInboundEvent with its message, or the
\* exception that propagates
InboundEvent(request) ==
  LET message == IF Has(request.POST.body_mime)
                   THEN parse_raw_mime(Last(request.POST.body_mime))
                   ELSE message_from_mailgun_parsed(request)
  IN
  IF message.exc # ""
    THEN InboundFailure(message.exc, message.field, message.consumed)
  ELSE IF SpamScore(message.headers).exc # ""
    THEN InboundFailure(SpamScore(message.headers).exc, "X-Mailgun-Sscore",
                        message.consumed)
  ELSE IF ~Has(request.POST.timestamp)
    THEN InboundFailure("KeyError", "timestamp", message.consumed)
  ELSE IF ~ParsesAsInt(Last(request.POST.timestamp))
    THEN InboundFailure("ValueError", "timestamp", message.consumed)
  ELSE [status |-> "ok", exc |-> "", field |-> "",
        consumed |-> message.consumed,
        attachments |-> message.attachments,
        attachments_none |-> message.attachments_none,
        headers |-> message.headers,
        spam_detected |-> SpamDetected(message.headers),
        spam_score |-> SpamScore(message.headers).score,
        timestamp |-> IntValue(Last(request.POST.timestamp))]

\* --- the inputs of the inbound mapper -------------------------------------

MaxAttachments == 2

Header(name, value) == [name |-> name, value |-> value]

\* the text of the inbound `message-headers`: a JSON list of [name, value]
\* pairs, or not JSON
IList(items) == [t |-> "list", items |-> items]
IBad == [t |-> "bad", items |-> <<>>]

InboundHeaders ==
  { Header("X-Mailgun-Sflag", v) :
      v \in { <<"y", "e", "s">>, <<"Y", "E", "S">>, <<"N", "o">>,
              <<"y", "e", "s", " ">> } }
  \cup { Header("x-mailgun-sflag", <<"Y", "e", "s">>),
         Header("Subject", <<"y", "e", "s">>) }
  \cup { Header("X-Mailgun-Sscore", v) :
           v \in { <<"5", ".", "5">>, <<" ", "5", ".", "5", "0">>,
                   <<"-", "1", ".", "5">>, <<"a", "b", "c">>, <<>>,
                   <<"5", ".", "5", ".", "5">> } }

HeaderLists == SeqsUpTo(InboundHeaders, MaxHeaders)

PlainHeaders == << Header("Subject", <<"a">>) >>

\* `attachment-count` values: 0..MaxAttachments and texts int() treats
\* in other ways
CountTexts ==
  { << DigitChars[n + 1] >> : n \in 0..MaxAttachments }
  \cup { <<"-", "1">>, <<" ", "2">>, <<"x">>, <<>>, <<"2", ".", "0">> }

\* the uploaded files: any of attachment-0 .. attachment-(MaxAttachments+1)
FileSets == SUBSET { AttachmentField(i) : i \in 0..(MaxAttachments + 1) }

CidItems ==
  { [cid |-> c, att_id |-> AttachmentField(i)] :
      c \in {"c1", "c2"}, i \in 1..MaxAttachments }

\* the items of a JSON object: its keys (the content-ids) are distinct
ContentIdMaps ==
  { MBad, MNumber }
  \cup { MObject(items) : items \in
           { m \in SeqsUpTo(CidItems, 2) :
               \A i, j \in 1..Len(m) : m[i].cid = m[j].cid => i = j } }

InboundRequest(mime, hdrs, count, map, ts, files) ==
  [present |-> TRUE,
   POST |-> [body_mime |-> mime, message_headers |-> hdrs,
             attachment_count |-> count, content_id_map |-> map,
             timestamp |-> ts],
   FILES |-> files]

ValidTimestamp == << <<"1", "7">> >>

\* the requests mapped: raw-MIME and fully-parsed messages over all header
\* lists, and fully-parsed messages over all attachment fields
InboundRequests ==
  { InboundRequest(<< [headers |-> h, attachments |-> <<>>] >>,
                   <<>>, <<>>, <<>>, ts, {}) :
      h \in HeaderLists, ts \in FewTimestamps }
  \cup
  { InboundRequest(<<>>, << IList(h) >>, <<>>, <<>>, ts, {}) :
      h \in HeaderLists, ts \in FewTimestamps }
  \cup
  { InboundRequest(<<>>, hdrs, count, map, ValidTimestamp, files) :
      hdrs \in { << IList(PlainHeaders) >>, << IBad >> },
      count \in Optional(CountTexts),
      map \in Optional(ContentIdMaps),
      files \in FileSets }
  \cup
  { InboundRequest(<<>>, hdrs, count, <<>>, ts, {AttachmentField(1)}) :
      hdrs \in { <<>>, << IBad >>, << IList(PlainHeaders) >> },
      count \in { <<>>, << <<"1">> >>, << <<"x">> >> },
      ts \in AllTimestamps }

\* placeholders of the two mappers while no event is being mapped
NoTrackingEvent ==
  [present |-> FALSE, event |-> <<>>, timestamp |-> <<>>,
   Message_Id |-> <<>>, message_id |-> <<>>,
   code |-> <<>>, message_headers |-> <<>>]
NoTrackingResult == [TrackingFailure("", "") EXCEPT !.status = "none"]
NoInboundRequest ==
  [present |-> FALSE,
   POST |-> [body_mime |-> <<>>, message_headers |-> <<>>,
             attachment_count |-> <<>>, content_id_map |-> <<>>,
             timestamp |-> <<>>],
   FILES |-> {}]
NoInboundResult == [InboundFailure("", "", <<>>) EXCEPT !.status = "none"]

MappersIdle ==
  /\ tevent' = NoTrackingEvent
  /\ tresult' = NoTrackingResult
  /\ ireq' = NoInboundRequest
  /\ iresult' = NoInboundResult

\* nothing is being validated or mapped: invocations share no state, so
\* every invocation starts from here
Idle ==
  /\ vpc = "idle"
  /\ tresult = NoTrackingResult
  /\ iresult = NoInboundResult

\* the view is dispatched a request and calls validate_request
ValidateStart ==
  /\ Idle
  /\ \E r \in ValidateRequests(api_key) : vreq' = r
  /\ vpc' = "basic_auth"
  /\ vexpected' = <<>>
  /\ vreached' = {}
  /\ voutcome' = "none"
  /\ MappersIdle
  /\ UNCHANGED api_key

\* line 30: super().validate_request(request)
ValidateBasicAuth ==
  /\ vpc = "basic_auth"
  /\ vreached' = vreached \cup {"basic_auth"}
  /\ IF basic_auth_passes(vreq)
       THEN vpc' = "fields" /\ voutcome' = voutcome
       ELSE vpc' = "done" /\ voutcome' = "AnymailWebhookValidationFailure"
  /\ UNCHANGED <<api_key, vreq, vexpected, tevent, tresult, ireq, iresult>>

\* lines 31-36: read token, timestamp and signature; KeyError is turned
\* into the validation failure
ValidateFields ==
  /\ vpc = "fields"
  /\ vreached' = vreached \cup {"fields"}
  /\ IF RequiredFieldsPresent(vreq.POST)
       THEN vpc' = "digest" /\ voutcome' = voutcome
       ELSE vpc' = "done" /\ voutcome' = "AnymailWebhookValidationFailure"
  /\ UNCHANGED <<api_key, vreq, vexpected, tevent, tresult, ireq, iresult>>

\* lines 37-38: encode the message and compute expected_signature;
\* .encode('ascii') raises UnicodeEncodeError on a non-ASCII character
ValidateDigest ==
  /\ vpc = "digest"
  /\ vreached' = vreached \cup {"digest"}
  /\ IF MessageEncodes(vreq.POST)
       THEN /\ vexpected' = ExpectedSignature(api_key, vreq.POST)
            /\ vpc' = "compare"
            /\ voutcome' = voutcome
       ELSE /\ vexpected' = vexpected
            /\ vpc' = "done"
            /\ voutcome' = "UnicodeEncodeError"
  /\ UNCHANGED <<api_key, vreq, tevent, tresult, ireq, iresult>>

\* lines 39-40: the constant-time comparison
ValidateCompare ==
  /\ vpc = "compare"
  /\ vreached' = vreached \cup {"compare"}
  /\ vpc' = "done"
  /\ voutcome' = IF SignatureMatches(Last(vreq.POST.signature), vexpected)
                   THEN "accepted"
                   ELSE "AnymailWebhookValidationFailure"
  /\ UNCHANGED <<api_key, vreq, vexpected, tevent, tresult, ireq, iresult>>

\* MailgunTrackingWebhookView.parse_events: map request.POST
TrackingParseEvents ==
  /\ Idle
  /\ tevent = NoTrackingEvent
  /\ \E e \in TrackingEvents :
       /\ tevent' = e
       /\ tresult' = TrackingEvent(e)
  /\ ireq' = NoInboundRequest
  /\ iresult' = NoInboundResult
  /\ UNCHANGED <<api_key, vreq, vpc, vexpected, vreached, voutcome>>

\* MailgunInboundWebhookView.parse_events: map the request
InboundParseEvents ==
  /\ Idle
  /\ ireq = NoInboundRequest
  /\ \E r \in InboundRequests :
       /\ ireq' = r
       /\ iresult' = InboundEvent(r)
  /\ tevent' = NoTrackingEvent
  /\ tresult' = NoTrackingResult
  /\ UNCHANGED <<api_key, vreq, vpc, vexpected, vreached, voutcome>>

Init ==
  /\ api_key \in ApiKeys
  /\ vreq = NoValidateRequest
  /\ vpc = "idle"
  /\ vexpected = <<>>
  /\ vreached = {}
  /\ voutcome = "none"
  /\ tevent = NoTrackingEvent
  /\ tresult = NoTrackingResult
  /\ ireq = NoInboundRequest
  /\ iresult = NoInboundResult

NextValidate ==
  \/ ValidateStart
  \/ ValidateBasicAuth
  \/ ValidateFields
  \/ ValidateDigest
  \/ ValidateCompare

SpecValidate == Init /\ [][NextValidate]_vars

NextTracking == TrackingParseEvents

SpecTracking == Init /\ [][NextTracking]_vars

NextInbound == InboundParseEvents

SpecInbound == Init /\ [][NextInbound]_vars

NextMappers ==
  \/ TrackingParseEvents
  \/ InboundParseEvents

SpecMappers == Init /\ [][NextMappers]_vars

Next ==
  \/ ValidateStart
  \/ ValidateBasicAuth
  \/ ValidateFields
  \/ ValidateDigest
  \/ ValidateCompare
  \/ TrackingParseEvents
  \/ InboundParseEvents

Spec == Init /\ [][Next]_vars

\* ------------------------------------------------------------------------
\* Properties of the validator
\* ------------------------------------------------------------------------

ValidationDone == vpc = "done"

\* token, timestamp and signature were all posted
AllFieldsPosted ==
  /\ vreq.POST.token # <<>>
  /\ vreq.POST.timestamp # <<>>
  /\ vreq.POST.signature # <<>>

\* the claim's case: basic auth passed and the three fields are present
FullyFormedRequest ==
  /\ ValidationDone
  /\ vreq.basic_auth_ok
  /\ AllFieldsPosted

SuppliedSignature == Last(vreq.POST.signature)

MessageDigest ==
  hmac_hexdigest(api_key,
                 Last(vreq.POST.timestamp) \o Last(vreq.POST.token))

\* C1 as stated: for every key, timestamp, token and supplied signature
\* with all three fields present and basic auth passed, the request is
\* accepted when the signature equals the hex digest of timestamp||token
\* and ends in AnymailWebhookValidationFailure for every other signature.
C1_AcceptsExactlyDigest_AnyText ==
  FullyFormedRequest =>
    /\ SuppliedSignature = MessageDigest => voutcome = "accepted"
    /\ SuppliedSignature # MessageDigest =>
         voutcome = "AnymailWebhookValidationFailure"

\* C1 amended: the same, for every timestamp and token that consist of
\* ASCII characters (for any other, encoding the message raises
\* UnicodeEncodeError before a digest exists).
C1_AcceptsExactlyDigest_Ascii ==
  ( /\ FullyFormedRequest
    /\ IsAscii(Last(vreq.POST.timestamp))
    /\ IsAscii(Last(vreq.POST.token)) ) =>
    /\ SuppliedSignature = MessageDigest => voutcome = "accepted"
    /\ SuppliedSignature # MessageDigest =>
         voutcome = "AnymailWebhookValidationFailure"

\* C1 witness: a digest with one bit flipped has been rejected
C1_BitFlipRejected ==
  /\ FullyFormedRequest
  /\ IsAscii(Last(vreq.POST.timestamp) \o Last(vreq.POST.token))
  /\ SuppliedSignature \in SingleBitFlips(MessageDigest)
  /\ voutcome = "AnymailWebhookValidationFailure"

\* C9: validate_request runs basic auth, then the presence check, then the
\* digest and comparison; a request missing token, timestamp or signature
\* ends in AnymailWebhookValidationFailure without the digest or the
\* comparison being reached, and when basic auth fails neither the
\* presence check nor the comparison is reached.
C9_StepsInOrder ==
  /\ "fields" \in vreached => "basic_auth" \in vreached
  /\ "digest" \in vreached => "fields" \in vreached
  /\ "compare" \in vreached => "digest" \in vreached
  /\ vpc \in {"digest", "compare"} => AllFieldsPosted
  /\ (vpc # "idle" /\ ~AllFieldsPosted) =>
       /\ "digest" \notin vreached
       /\ "compare" \notin vreached
       /\ ValidationDone => voutcome = "AnymailWebhookValidationFailure"
  /\ (vpc # "idle" /\ ~vreq.basic_auth_ok) =>
       /\ "fields" \notin vreached
       /\ "compare" \notin vreached
       /\ vpc \in {"basic_auth", "done"}

\* C9 witness: a request without a signature, basic auth passed, has been
\* rejected by the presence check
C9_MissingFieldRejected ==
  /\ ValidationDone
  /\ vreq.basic_auth_ok
  /\ ~Has(vreq.POST.signature)
  /\ Has(vreq.POST.token) /\ Has(vreq.POST.timestamp)
  /\ vreached = {"basic_auth", "fields"}
  /\ voutcome = "AnymailWebhookValidationFailure"

\* ------------------------------------------------------------------------
\* Properties of the tracking mapper
\* ------------------------------------------------------------------------

TrackingMapped == tevent.present /\ tresult.status = "ok"

\* the text split at its dots
RECURSIVE SplitDots(_)
SplitDots(s) ==
  IF s = <<>> THEN << <<>> >>
  ELSE LET rest == SplitDots(Tail(s)) IN
       IF Head(s) = "." THEN << <<>> >> \o rest
       ELSE << <<Head(s)>> \o Head(rest) >> \o Tail(rest)

\* class.subject.detail: three non-empty groups of digits
IsExtendedStatus(s) ==
  LET parts == SplitDots(s) IN
  /\ Len(parts) = 3
  /\ \A i \in 1..3 : parts[i] # <<>> /\ AllDigits(parts[i])

CodeText == Last(tevent.code)

CodeIsStatus ==
  /\ Has(tevent.code)
  /\ ParsesAsInt(CodeText) \/ IsExtendedStatus(CodeText)

\* C2: when `code` parses as an integer or as a dotted extended status
\* code, the reject reason depends on `code` alone: 499 is timed-out, 605
\* bounced, 607 spam, any other integer in 400..599 bounced, any integer
\* outside that range other; a dotted code is bounced when its first
\* segment is "4" or "5" and other otherwise.
C2_RejectReasonFromCode ==
  (TrackingMapped /\ CodeIsStatus) =>
    tresult.reject_reason =
      IF ParsesAsInt(CodeText)
        THEN LET n == IntValue(CodeText) IN
             CASE n = 499 -> "TIMED_OUT"
               [] n = 605 -> "BOUNCED"
               [] n = 607 -> "SPAM"
               [] n \notin {499, 605, 607} /\ n \in 400..599 -> "BOUNCED"
               [] OTHER -> "OTHER"
        ELSE IF SplitDots(CodeText)[1] \in { <<"4">>, <<"5">> }
               THEN "BOUNCED" ELSE "OTHER"

\* C2 witness: code 499 has been mapped to timed-out
C2_TimedOutMapped ==
  /\ TrackingMapped
  /\ Has(tevent.code)
  /\ CodeText = <<"4", "9", "9">>
  /\ tresult.reject_reason = "TIMED_OUT"

\* C3 as stated: when `code` is absent, or present but neither an integer
\* nor a dotted extended status code, the reject reason is left unset and
\* the code field raises no error.
C3_MalformedCodeUnset ==
  (tevent.present /\ ~CodeIsStatus) =>
    /\ tresult.field # "code"
    /\ tresult.status = "ok" => tresult.reject_reason = "None"

HeadersText == Last(tevent.message_headers)

\* every element of the posted list is a [field, value] pair
ListOfPairs ==
  /\ HeadersText.t = "list"
  /\ \A i \in 1..Len(HeadersText.items) : HeadersText.items[i].t = "pair"

VariablesEntries ==
  { i \in 1..Len(HeadersText.items) :
      HeadersText.items[i].field = "X-Mailgun-Variables" }

\* `message-headers` is malformed: not JSON, not a list of pairs, or
\* with an X-Mailgun-Variables value that is not JSON
HeadersMalformed ==
  \/ HeadersText.t = "bad"
  \/ ~ListOfPairs
  \/ \E i \in VariablesEntries :
       /\ HeadersText.items[i].value.t = "string"
       /\ HeadersText.items[i].value.json.t = "bad"

\* C4 as stated: when `message-headers` is absent or malformed, the
\* produced event has empty metadata and no error is raised.
C4_MalformedHeadersEmptyMetadata ==
  (tevent.present /\ (~Has(tevent.message_headers) \/ HeadersMalformed)) =>
    /\ tresult.field # "message-headers"
    /\ tresult.status = "ok" => tresult.metadata = EmptyDict

\* a list of pairs whose X-Mailgun-Variables values are JSON objects
HeadersWellFormed ==
  /\ Has(tevent.message_headers)
  /\ ListOfPairs
  /\ \A i \in VariablesEntries :
       /\ HeadersText.items[i].value.t = "string"
       /\ HeadersText.items[i].value.json.t = "object"

\* C5: for a well-formed header list the metadata holds exactly the keys
\* of the X-Mailgun-Variables entries, each with the value the last such
\* entry that has the key gives it; entries under other names contribute
\* nothing and without such an entry the metadata is empty.
C5_MetadataIsOrderedMerge ==
  (tevent.present /\ HeadersWellFormed) =>
    /\ tresult.field # "message-headers"
    /\ tresult.status = "ok" =>
         LET dict(i) == HeadersText.items[i].value.json.dict
             keys == UNION { DOMAIN dict(i) : i \in VariablesEntries }
             last(k) == CHOOSE i \in VariablesEntries :
                          /\ k \in DOMAIN dict(i)
                          /\ \A j \in VariablesEntries :
                               k \in DOMAIN dict(j) => j <= i
         IN  /\ DOMAIN tresult.metadata = keys
             /\ \A k \in keys : tresult.metadata[k] = dict(last(k))[k]

\* C5 witness: {"a":1,"b":2} followed by {"b":3} has been merged into
\* {"a":1,"b":3}
C5_LaterEntryOverrides ==
  /\ TrackingMapped
  /\ Has(tevent.message_headers)
  /\ HeadersText =
       HList(<< Pair("X-Mailgun-Variables", VString(JObject([a |-> 1, b |-> 2]))),
                Pair("X-Mailgun-Variables", VString(JObject([b |-> 3]))) >>)
  /\ tresult.metadata = [a |-> 1, b |-> 3]

HasMessageId == Has(tevent.Message_Id) \/ Has(tevent.message_id)

\* the identifier the event carries (Message-Id before message-id)
CarriedId ==
  IF Has(tevent.Message_Id) THEN Last(tevent.Message_Id)
  ELSE Last(tevent.message_id)

\* C6 as stated: the message_id of the produced event always begins with
\* '<' and ends with '>' (for an event that carries an identifier, taken
\* here as a non-empty one), and an identifier already in that form is
\* returned unchanged.
C6_AlwaysBracketed ==
  (TrackingMapped /\ HasMessageId /\ CarriedId # <<>>) =>
    /\ tresult.message_id # <<>>
    /\ tresult.message_id[1] # <<>>
    /\ Head(tresult.message_id[1]) = "<"
    /\ Last(tresult.message_id[1]) = ">"
    /\ (Head(CarriedId) = "<" /\ Last(CarriedId) = ">") =>
         tresult.message_id[1] = CarriedId

\* C6 amended: the message_id of the produced event always begins with
\* '<'; it ends with '>' when the carried identifier does not begin with
\* '<' (it is then wrapped in '<' and '>') or itself ends with '>'; an
\* identifier that begins with '<' is returned unchanged, never wrapped a
\* second time, also when it lacks the closing '>'.
C6_WrappedUnlessOpens ==
  (TrackingMapped /\ HasMessageId /\ CarriedId # <<>>) =>
    /\ tresult.message_id # <<>>
    /\ tresult.message_id[1] # <<>>
    /\ Head(tresult.message_id[1]) = "<"
    /\ Head(CarriedId) # "<" =>
         tresult.message_id[1] = <<"<">> \o CarriedId \o <<">">>
    /\ Head(CarriedId) = "<" => tresult.message_id[1] = CarriedId
    /\ (Head(CarriedId) # "<" \/ Last(CarriedId) = ">") =>
         Last(tresult.message_id[1]) = ">"

\* C6 witness: an identifier already in angle brackets has been mapped
C6_BracketedIdMapped ==
  /\ TrackingMapped
  /\ HasMessageId
  /\ CarriedId = <<"<", "a", ">">>
  /\ tresult.message_id = << <<"<", "a", ">">> >>

\* ------------------------------------------------------------------------
\* Properties of the inbound mapper
\* ------------------------------------------------------------------------

FullyParsed == ireq.present /\ ~Has(ireq.POST.body_mime)

\* a fully-parsed request whose attachment-count is an integer n >= 0
CountsAttachments ==
  /\ FullyParsed
  /\ Has(ireq.POST.attachment_count)
  /\ ParsesAsInt(Last(ireq.POST.attachment_count))
  /\ IntValue(Last(ireq.POST.attachment_count)) >= 0

DeclaredCount == IntValue(Last(ireq.POST.attachment_count))

DeclaredFields == [i \in 1..DeclaredCount |-> AttachmentField(i)]

MapItems ==
  IF Has(ireq.POST.content_id_map)
    THEN Last(ireq.POST.content_id_map).items ELSE <<>>

\* the produced message has one attachment per declared field, in order,
\* each with a content-id that the map gives its field (none if it
\* gives none)
AttachmentsAsDeclared ==
  /\ Len(iresult.attachments) = DeclaredCount
  /\ \A i \in 1..DeclaredCount :
       LET cids == { MapItems[j].cid : j \in
                       { j \in 1..Len(MapItems) :
                           MapItems[j].att_id = AttachmentField(i) } }
           att == iresult.attachments[i]
       IN  /\ att.file = AttachmentField(i)
           /\ cids = {} => att.content_id = <<>>
           /\ cids # {} => att.content_id # <<>> /\ att.content_id[1] \in cids

\* the content-id-map the claim speaks of: absent, or a JSON object
MapIsMapping ==
  Has(ireq.POST.content_id_map) =>
    Last(ireq.POST.content_id_map).t = "object"

UploadsComplete ==
  \A i \in 1..DeclaredCount : AttachmentField(i) \in ireq.FILES

PostedHeaders ==
  IF Has(ireq.POST.body_mime) THEN Last(ireq.POST.body_mime).headers
  ELSE IF Has(ireq.POST.message_headers)
    THEN Last(ireq.POST.message_headers).items
  ELSE <<>>

\* the value of the first header of that lower-case name, <<>> if none
FirstHeader(lname) ==
  LET idx == { i \in 1..Len(PostedHeaders) :
                 LowerName(PostedHeaders[i].name) = lname }
  IN  IF idx = {} THEN <<>>
      ELSE << PostedHeaders[CHOOSE i \in idx : \A j \in idx : i <= j].value >>

\* C8: on both branches a missing or non-numeric X-Mailgun-Sscore leaves
\* the spam score unset and raises nothing (the event is produced
\* whenever the message and the timestamp parse), a numeric one gives
\* that number, and spam_detected is true exactly when X-Mailgun-Sflag
\* equals "yes" without regard to case.
C8_SpamSignalsTolerant ==
  ireq.present =>
    /\ iresult.field \notin {"X-Mailgun-Sscore", "X-Mailgun-Sflag"}
    /\ iresult.status = "error" =>
         \/ ~ParsesAsInt(Last(ireq.POST.timestamp))
         \/ FullyParsed /\ iresult.field \in
              {"message-headers", "attachment-count", "content-id-map", "FILES"}
    /\ iresult.status = "ok" =>
         LET score == FirstHeader("x-mailgun-sscore")
             flag == FirstHeader("x-mailgun-sflag")
         IN  /\ (score = <<>> \/ ~ParsesAsFloat(score[1])) =>
                  iresult.spam_score = <<>>
             /\ (score # <<>> /\ ParsesAsFloat(score[1])) =>
                  iresult.spam_score = << FloatValue(score[1]) >>
             /\ score = << <<"5", ".", "5">> >> =>
                  iresult.spam_score = << [n |-> 55, e |-> 1] >>
             /\ iresult.spam_detected <=>
                  /\ flag # <<>>
                  /\ Len(flag[1]) = 3
                  /\ flag[1][1] \in {"y", "Y"}
                  /\ flag[1][2] \in {"e", "E"}
                  /\ flag[1][3] \in {"s", "S"}

\* C8 witness: a fully-parsed message whose score header is not a number
\* has been mapped, with the score unset
C8_BadScoreTolerated ==
  /\ FullyParsed
  /\ iresult.status = "ok"
  /\ FirstHeader("x-mailgun-sscore") = << <<"a", "b", "c">> >>
  /\ FirstHeader("x-mailgun-sflag") = << <<"Y", "E", "S">> >>
  /\ iresult.spam_score = <<>>
  /\ iresult.spam_detected

\* the exceptions a failed parse raises
ParseFailures == {"ValueError", "TypeError", "AttributeError"}

\* C10 as stated: across both mappers a field that fails to parse makes
\* the invocation fail only when it is `timestamp`, or `message-headers`
\* in the inbound fully-parsed branch; a parse failure of any other field
\* is tolerated and an event is still produced.
C10_OnlyRequiredFieldsEscalate ==
  /\ (tresult.status = "error" /\ tresult.exc \in ParseFailures) =>
       tresult.field = "timestamp"
  /\ (iresult.status = "error" /\ iresult.exc \in ParseFailures) =>
       \/ iresult.field = "timestamp"
       \/ iresult.field = "message-headers" /\ FullyParsed

====
